---- MODULE Spec2Model ----
(***************************************************************************)
(* A model of regression_tests/cmd_runner.py: CmdRunner.run_cmd,           *)
(* CmdRunner.start and its SIGTERM handler, and the kill() of the two      *)
(* Popen wrappers (_LinuxProcess, _WindowsProcess), together with the part *)
(* of the operating system they act on (process groups, PID reuse, the     *)
(* output pipe, descendants of the spawned process).                       *)
(*                                                                         *)
(* The host is one Python main thread (signal.signal works only there).    *)
(* pc is its position; a SIGTERM handler runs between any two of its       *)
(* steps, so every place where the order matters is a pc value of its own. *)
(***************************************************************************)
EXTENDS Integers, Sequences, FiniteSets, TLC

\* ---------------------------------------------------------------- bounds
MaxHandles == 2
MaxOut == 2
MaxArgs == 3
MaxCalls == 2
MaxLen == 3

\* ------------------------------------------------------------- constants
SIGTERM == 15

\* The status with which the command behind the g-th handle ends when it
\* ends on its own: two statuses, both different from what a kill leaves.
NaturalStatus(g) == g % 2
\* What the spawned command leaves behind besides itself:
\*   "none"      no descendant,
\*   "group"     a descendant in the command's process group that holds the
\*               output pipe and dies on SIGTERM,
\*   "stubborn"  the same, but it ignores SIGTERM (it stands for every member
\*               of the group that does),
\*   "daemon"    a descendant that called setsid() and closed the pipe.
DescKinds == {"none", "group", "stubborn", "daemon"}
PipeHolders == {"group", "stubborn"}

VARIABLES
    onWindows,    \* on_windows(): which Popen wrapper start() builds
    pc,           \* position of the host's main thread
    cur,          \* the handle the main thread is working on (p), 0 if none
    handles,      \* the Popen objects created so far, in creation order
    procs,        \* the OS process behind each handle
    handlerSlot,  \* the handle the installed SIGTERM handler closes over, 0 = SIG_DFL
    lastStarted,  \* the handle returned by the most recent start(), 0 if none
    inv,          \* the run_cmd() invocation in progress
    hostExit,     \* how the host ended: "none", "exit1", "signal", "traceback"
    result,       \* what run_cmd() returned or raised in the step just taken
    lastKill,     \* the kill() call made in the step just taken
    cmd           \* the caller's argument list (one list object) and its calls

vars == <<onWindows, pc, cur, handles, procs, handlerSlot, lastStarted, inv,
          hostExit, result, lastKill, cmd>>

H == DOMAIN handles

\* ------------------------------------------------------------ the output
\* The i-th byte a command writes. "ESC" stands for one whole colour escape
\* sequence, "xFF" for a byte that is not valid UTF-8.
Byte(i) ==
    CASE i % 5 = 1 -> "CR"
      [] i % 5 = 2 -> "LF"
      [] i % 5 = 3 -> "a"
      [] i % 5 = 4 -> "ESC"
      [] OTHER     -> "xFF"

Written(n) == [i \in 1..n |-> Byte(i)]

\* bytes.decode('utf-8', errors='replace')
DecodeBytes(bs) == [i \in 1..Len(bs) |-> IF bs[i] = "xFF" THEN "REPL" ELSE bs[i]]

\* A substitution that turns every '\r' into '\n' and leaves the '\n' of a
\* '\r\n' in place.
NormalizeEachCR(s) == [i \in 1..Len(s) |-> IF s[i] = "CR" THEN "LF" ELSE s[i]]

\* re.sub(r'\r\n?', '\n', output)
RECURSIVE NormalizeNewlines(_)
NormalizeNewlines(s) ==
    IF s = <<>> THEN <<>>
    ELSE IF Head(s) = "CR"
         THEN IF Len(s) >= 2 /\ s[2] = "LF"
              THEN <<"LF">> \o NormalizeNewlines(SubSeq(s, 3, Len(s)))
              ELSE <<"LF">> \o NormalizeNewlines(Tail(s))
         ELSE <<Head(s)>> \o NormalizeNewlines(Tail(s))

\* io.strip_shell_colors: removes the colour escape sequences.
IsNotColor(c) == c # "ESC"
StripShellColors(s) == SelectSeq(s, IsNotColor)

\* A decode() that strips the colours of undecoded output too.
DecodeStripsRaw(output, encoded, strip) ==
    IF encoded
    THEN LET text == NormalizeNewlines(DecodeBytes(output))
         IN  IF strip THEN StripShellColors(text) ELSE text
    ELSE IF strip THEN StripShellColors(output) ELSE output

\* run_cmd's local decode(): encoded = FALSE is output_encoding=None.
Decode(output, encoded, strip) ==
    IF encoded
    THEN LET text == NormalizeNewlines(DecodeBytes(output))
         IN  IF strip THEN StripShellColors(text) ELSE text
    ELSE output

\* ---------------------------------------------------- the operating system
\* The process group (POSIX) of handle g still has a member, or (Windows) the
\* Popen object still holds the process handle: the PID cannot be given out.
GroupAlive(g) ==
    \/ procs[g].state # "reaped"
    \/ (~onWindows /\ procs[g].desc \in PipeHolders)

PidInUse(p) == \E g \in H : handles[g].pid = p /\ GroupAlive(g)

\* The PIDs the next process can get: one never used, or one that is free
\* again (PIDs are only ever compared, so one fresh PID stands for all).
SpawnPids ==
    {Len(handles) + 1} \cup {handles[g].pid : g \in {x \in H : ~PidInUse(handles[x].pid)}}

\* Every writer of the output pipe of g has closed it.
Eof(g) == procs[g].state # "running" /\ procs[g].desc \notin PipeHolders

\* Somebody of g's process tree is still running.
TreeAlive(g) == procs[g].state = "running" \/ procs[g].desc # "none"

\* os.killpg(pid, SIGTERM) reaches the group whose id is pid;
\* taskkill /F /T /PID pid reaches the running process with that PID.
KillTargets(pid) ==
    IF onWindows
    THEN {g \in H : handles[g].pid = pid /\ procs[g].state = "running"}
    ELSE {g \in H : handles[g].pid = pid /\ GroupAlive(g)}

\* The process behind g after the termination action reached it: taskkill /F
\* /T ends the process and its tree; SIGTERM ends the members of the group
\* that do not ignore it.
Terminated(p) ==
    [p EXCEPT !.state = IF p.state = "running" THEN "exited" ELSE p.state,
              !.status = IF p.state = "running"
                         THEN (IF onWindows THEN 1 ELSE -SIGTERM) ELSE p.status,
              !.cause = IF p.state = "running" THEN "signal" ELSE p.cause,
              !.desc = IF onWindows \/ p.desc = "group" THEN "none" ELSE p.desc]

\* ------------------------------------------------------------------ kill()
\* What a call of handles[h].kill() does:
\*   "noop"   kill has been replaced by lambda: None,
\*   "error"  os.killpg raises ProcessLookupError (no such group),
\*   "miss"   taskkill finds no such process (its status is not looked at),
\*   "own"    the termination action reaches h's own process group,
\*   "other"  it reaches the group of another handle that got the same PID.
KillEffect(h) ==
    IF handles[h].killReplaced THEN "noop"
    ELSE IF KillTargets(handles[h].pid) = {}
         THEN IF onWindows THEN "miss" ELSE "error"
         ELSE IF h \in KillTargets(handles[h].pid) THEN "own" ELSE "other"

\* Line 136 / lines 173-174: the processes after the call.
KillProcs(h) ==
    IF handles[h].killReplaced THEN procs
    ELSE [g \in H |-> IF g \in KillTargets(handles[h].pid)
                      THEN Terminated(procs[g]) ELSE procs[g]]

\* A replacement made on the class: it turns the kill() of every handle into
\* the no-op.
ReplaceKillOfClass(hs, h) ==
    [g \in DOMAIN hs |-> [hs[g] EXCEPT !.killReplaced = TRUE,
                                      !.kdone = (g = h \/ hs[g].kdone)]]

\* Line 145 / line 183: self.kill = lambda: None. kdone: a kill() call on the
\* handle has come to its end (returned or raised).
ReplaceKill(hs, h) == [hs EXCEPT ![h].killReplaced = TRUE, ![h].kdone = TRUE]

\* ------------------------------------------------------------- positions
\* Inside run_cmd(), after start() has returned the handle (lines 70-77).
RunWindow == {"rc_comm", "rc_ret", "rc_timeout", "rc_kill_mid", "rc_drain",
              "rc_ret_to"}
\* Inside run_cmd() (lines 68-77), the call of start() included.
RunPcs == RunWindow \cup {"rc_spawned"}

\* The record of a kill() call, taken when it is made: by whom ("timeout" is
\* run_cmd's line 74, "sigterm" the handler, "user" the harness), whether an
\* earlier call on the handle had ended, whether the process had exited on its
\* own and been waited for, whether run_cmd() was past start(), and the effect.
\* running: the handle's process has not exited yet. again: the call comes in while another kill() on the same handle stands
\* between line 136 and line 145 (between lines 174 and 183).
KillRecord(h, by) ==
    [h |-> h, by |-> by,
     later |-> handles[h].kdone,
     again |-> h = cur /\ pc \in {"rc_kill_mid", "uk_mid"},
     running |-> procs[h].state = "running",
     stale |-> handles[h].returncode # <<>> /\ procs[h].cause = "natural",
     inWindow |-> pc \in RunWindow,
     effect |-> KillEffect(h)]

NoKill ==
    [h |-> 0, by |-> "none", later |-> FALSE, again |-> FALSE,
     running |-> FALSE, stale |-> FALSE,
     inWindow |-> FALSE, effect |-> "none"]
NoResult ==
    [kind |-> "none", h |-> 0, raw |-> <<>>, output |-> <<>>, rc |-> <<>>,
     timedOut |-> FALSE, why |-> "none", encoded |-> FALSE, strip |-> FALSE,
     timeout |-> FALSE, fired |-> FALSE, natFirst |-> FALSE,
     kills |-> 0, written |-> 0, early |-> 0, treeAlive |-> FALSE]
\* The argument list as the caller built it (given), what the list object
\* holds now (list), the arguments the last Popen got (argv), the calls made
\* with the list and the method last called with it.
NoCmd == [given |-> <<>>, list |-> <<>>, argv |-> <<>>, calls |-> 0, via |-> "none"]
NoInv ==
    [timeout |-> FALSE, fired |-> FALSE, natFirst |-> FALSE, kills |-> 0,
     written |-> 0, buf |-> <<>>, early |-> 0]

Init ==
    /\ onWindows \in BOOLEAN
    /\ pc = "idle"
    /\ cur = 0
    /\ handles = <<>>
    /\ procs = <<>>
    /\ handlerSlot = 0
    /\ lastStarted = 0
    /\ inv = NoInv
    /\ hostExit = "none"
    /\ result = NoResult
    /\ lastKill = NoKill
    /\ cmd = NoCmd

\* A step in which run_cmd() neither returns nor raises / no kill() is called.
NoReturn == result' = NoResult
NoCall == lastKill' = NoKill

\* ------------------------------------------------------------- Popen(...)
\* Lines 93-102 with 118-132 / 151-163: a new process. On POSIX it is the
\* leader of a new session and group (preexec_fn=os.setsid). held: the
\* harness has the handle (start() returned it to the harness itself).
NewHandle(p) ==
    [pid |-> p, killReplaced |-> FALSE, returncode |-> <<>>, held |-> FALSE,
     kdone |-> FALSE]

NewProc(desc) ==
    [state |-> "running", status |-> 0, cause |-> "none", desc |-> desc]

Popen ==
    /\ Len(handles) < MaxHandles
    /\ \E p \in SpawnPids, desc \in DescKinds :
         /\ handles' = Append(handles, NewHandle(p))
         /\ procs' = Append(procs, NewProc(desc))
    /\ cur' = Len(handles) + 1

\* The handler that line 110 replaces was the last reference to the handle
\* of a finished run_cmd(): that Popen object is freed. Nothing can act on it
\* any more, and its PID is no longer followed.
Freed(g) ==
    /\ g # 0
    /\ g # cur
    /\ ~handles[g].held
    /\ handles[g].returncode # <<>>
    /\ ~GroupAlive(g) \/ onWindows

GoneHandle == [NewHandle(0) EXCEPT !.killReplaced = TRUE]
GoneProc == [NewProc("none") EXCEPT !.state = "reaped"]

\* A start() that keeps the handler an earlier start() installed.
InstalledFirstWins(slot, h) == IF slot = 0 THEN h ELSE slot

\* Line 110: signal.signal(signal.SIGTERM, handler) replaces whatever handler
\* was installed by the one that closes over the new handle.
Installed(slot, h) == h

\* Lines 107-112: signal.signal(signal.SIGTERM, handler); return p.
InstallHandler ==
    /\ pc \in {"rc_spawned", "st_spawned"}
    /\ handlerSlot' = Installed(handlerSlot, cur)
    /\ lastStarted' = cur
    /\ handles' = [g \in H |->
           IF g = cur THEN [handles[g] EXCEPT !.held = (pc = "st_spawned")]
           ELSE IF g = handlerSlot /\ g # handlerSlot' /\ Freed(g)
                THEN GoneHandle ELSE handles[g]]
    /\ procs' = [g \in H |->
           IF g = handlerSlot /\ g # handlerSlot' /\ Freed(g)
           THEN GoneProc ELSE procs[g]]
    /\ pc' = IF pc = "rc_spawned" THEN "rc_comm" ELSE "idle"
    /\ cur' = IF pc = "rc_spawned" THEN cur ELSE 0
    /\ NoReturn /\ NoCall
    /\ UNCHANGED <<cmd, onWindows, inv, hostExit>>

\* start(cmd, discard_output) called by the harness itself (lines 79-102).
\* Nobody reads the output of such a handle here, so discard_output shows
\* in nothing the model follows.
Start ==
    /\ pc = "idle"
    /\ Popen
    /\ pc' = "st_spawned"
    /\ NoReturn /\ NoCall
    /\ UNCHANGED <<cmd, onWindows, handlerSlot, lastStarted, inv, hostExit>>

\* ---------------------------------------------------------------- run_cmd
\* Lines 68-69: p = self.start(cmd), with or without a timeout.
RunCmd ==
    /\ pc = "idle"
    /\ Popen
    /\ \E timeout \in BOOLEAN : inv' = [NoInv EXCEPT !.timeout = timeout]
    /\ pc' = "rc_spawned"
    /\ NoReturn /\ NoCall
    /\ UNCHANGED <<cmd, onWindows, handlerSlot, lastStarted, hostExit>>

\* An exception leaves run_cmd() (only subprocess.TimeoutExpired is caught,
\* line 72): the caller handles it, or the host ends with a traceback.
Raised(why) == [NoResult EXCEPT !.kind = "raised", !.h = cur, !.why = why]

Propagates ==
    \E caught \in BOOLEAN :
        /\ pc' = IF caught THEN "idle" ELSE "exited"
        /\ hostExit' = IF caught THEN hostExit ELSE "traceback"

\* Line 69 when Popen raises (the executable is missing, ...).
RunCmdSpawnFails ==
    /\ pc = "idle"
    /\ result' = Raised("spawn")
    /\ Propagates
    /\ NoCall
    /\ UNCHANGED <<cmd, onWindows, cur, handles, procs, handlerSlot, lastStarted, inv>>

\* A wait that leaves p.returncode unset.
WaitedNoCode(hs, g) == hs

\* A wait that reports a status of its own making.
WaitedInvented(hs, g) == [hs EXCEPT ![g].returncode = <<-9>>]

\* The process is waited for: p.returncode is set and, on POSIX, the zombie
\* is reaped, which frees its PID.
Waited(hs, g) == [hs EXCEPT ![g].returncode = <<procs[g].status>>]

Reaped(ps, g) ==
    [ps EXCEPT ![g].state = IF onWindows THEN "exited" ELSE "reaped",
               ![g].status = 0]

\* Line 70: communicate(input, timeout) returns: the pipe is at EOF and the
\* process has exited.
CommunicateReturns ==
    /\ pc = "rc_comm"
    /\ Eof(cur)
    /\ handles' = Waited(handles, cur)
    /\ procs' = Reaped(procs, cur)
    /\ inv' = [inv EXCEPT !.buf = Written(inv.written)]
    /\ pc' = "rc_ret"
    /\ NoReturn /\ NoCall
    /\ UNCHANGED <<cmd, onWindows, cur, handlerSlot, lastStarted, hostExit>>

\* Line 70 raising subprocess.TimeoutExpired: the timeout elapses while the
\* pipe is still open or the process still runs. What was read stays in p.
TimeoutExpired ==
    /\ pc = "rc_comm"
    /\ inv.timeout
    /\ ~Eof(cur)
    /\ inv' = [inv EXCEPT !.fired = TRUE,
                          !.natFirst = (procs[cur].cause = "natural"),
                          !.buf = Written(inv.written),
                          !.early = inv.written]
    /\ pc' = "rc_timeout"
    /\ NoReturn /\ NoCall
    /\ UNCHANGED <<cmd, onWindows, cur, handles, procs, handlerSlot, lastStarted,
                   hostExit>>

\* A run_cmd() that returns right after the kill, without line 76.
AfterKillSkipsDrain == "rc_ret_to"

\* Lines 74-76: after p.kill() comes p.communicate().
AfterKill == "rc_drain"

\* Line 74 entering kill(): line 136 (os.killpg) or lines 173-174 (taskkill).
RunKill ==
    /\ pc = "rc_timeout"
    /\ lastKill' = KillRecord(cur, "timeout")
    /\ procs' = KillProcs(cur)
    /\ IF KillEffect(cur) = "error"
       THEN /\ handles' = [handles EXCEPT ![cur].kdone = TRUE]
            /\ result' = Raised("kill")
            /\ cur' = 0
            /\ inv' = NoInv
            /\ Propagates
       ELSE /\ pc' = IF KillEffect(cur) = "noop" THEN AfterKill ELSE "rc_kill_mid"
            /\ inv' = [inv EXCEPT !.kills = inv.kills + 1]
            /\ NoReturn
            /\ UNCHANGED <<handles, cur, hostExit>>
    /\ UNCHANGED <<cmd, onWindows, handlerSlot, lastStarted>>

\* Line 145 / 183 on the timeout path: self.kill = lambda: None.
RunKillReplace ==
    /\ pc = "rc_kill_mid"
    /\ handles' = ReplaceKill(handles, cur)
    /\ pc' = AfterKill
    /\ NoReturn /\ NoCall
    /\ UNCHANGED <<cmd, onWindows, cur, procs, handlerSlot, lastStarted, inv, hostExit>>

\* A drain that keeps only what it reads itself.
DrainedLosesEarly(buf, n) == SubSeq(Written(n), Len(buf) + 1, n)

\* What communicate() returns after a timeout: what was read before, then
\* what is read now.
Drained(buf, n) == buf \o SubSeq(Written(n), Len(buf) + 1, n)

\* Line 76: communicate() without a timeout returns.
DrainReturns ==
    /\ pc = "rc_drain"
    /\ Eof(cur)
    /\ handles' = Waited(handles, cur)
    /\ procs' = Reaped(procs, cur)
    /\ inv' = [inv EXCEPT !.buf = Drained(inv.buf, inv.written)]
    /\ pc' = "rc_ret_to"
    /\ NoReturn /\ NoCall
    /\ UNCHANGED <<cmd, onWindows, cur, handlerSlot, lastStarted, hostExit>>

\* Lines 71 and 77: the triple run_cmd() returns. With it, the arguments
\* output_encoding (encoded = FALSE is None) and strip_shell_colors of the
\* call, and what the invocation went through: whether it had a timeout,
\* whether it elapsed (fired), whether the
\* process had exited on its own by then (natFirst), the kill() calls run_cmd
\* made, the bytes written to the pipe in all and before the timeout (early),
\* and whether somebody of the process tree still runs at the return.
Triple(timedOut, encoded, strip) ==
    [kind |-> "triple", h |-> cur, raw |-> inv.buf,
     output |-> Decode(inv.buf, encoded, strip),
     rc |-> handles[cur].returncode, timedOut |-> timedOut, why |-> "none",
     encoded |-> encoded, strip |-> strip,
     timeout |-> inv.timeout, fired |-> inv.fired, natFirst |-> inv.natFirst,
     kills |-> inv.kills,
     written |-> inv.written, early |-> inv.early, treeAlive |-> TreeAlive(cur)]

\* A run_cmd() that reports a timeout on both paths.
TimedOutAlways(at) == TRUE

\* The third item: False at line 71, True at line 77.
TimedOut(at) == at = "rc_ret_to"

Return ==
    /\ pc \in {"rc_ret", "rc_ret_to"}
    /\ \E encoded \in BOOLEAN, strip \in BOOLEAN :
         result' = Triple(TimedOut(pc), encoded, strip)
    /\ pc' = "idle"
    /\ cur' = 0
    /\ inv' = NoInv
    /\ NoCall
    /\ UNCHANGED <<cmd, onWindows, handles, procs, handlerSlot, lastStarted, hostExit>>

\* ------------------------------------------------- the harness's own calls
\* h.kill() on a handle that start() returned: line 136 / lines 173-174.
UserKill(h) ==
    /\ pc = "idle"
    /\ handles[h].held
    /\ lastKill' = KillRecord(h, "user")
    /\ procs' = KillProcs(h)
    /\ IF KillEffect(h) \in {"noop", "error"}
       THEN /\ handles' = [handles EXCEPT ![h].kdone = TRUE]
            /\ cur' = 0
            /\ \E caught \in IF KillEffect(h) = "error" THEN BOOLEAN ELSE {TRUE} :
                 /\ pc' = IF caught THEN "idle" ELSE "exited"
                 /\ hostExit' = IF caught THEN hostExit ELSE "traceback"
       ELSE /\ pc' = "uk_mid"
            /\ cur' = h
            /\ UNCHANGED <<handles, hostExit>>
    /\ inv' = NoInv
    /\ NoReturn
    /\ UNCHANGED <<cmd, onWindows, handlerSlot, lastStarted>>

\* Line 145 / 183 of that call.
UserKillReplace ==
    /\ pc = "uk_mid"
    /\ handles' = ReplaceKill(handles, cur)
    /\ pc' = "idle"
    /\ cur' = 0
    /\ NoReturn /\ NoCall
    /\ UNCHANGED <<cmd, onWindows, procs, handlerSlot, lastStarted, inv, hostExit>>

\* h.wait() (inherited from subprocess.Popen) once the process has exited.
UserWait(h) ==
    /\ pc = "idle"
    /\ handles[h].held
    /\ handles[h].returncode = <<>>
    /\ procs[h].state = "exited"
    /\ handles' = Waited(handles, h)
    /\ procs' = Reaped(procs, h)
    /\ cur' = 0
    /\ inv' = NoInv
    /\ NoReturn /\ NoCall
    /\ UNCHANGED <<cmd, onWindows, pc, handlerSlot, lastStarted, hostExit>>

\* ------------------------------------------------------------- the handler
\* SIGTERM reaches the host. With no handler installed the host dies of it;
\* otherwise lines 107-109 run: p.kill(); sys.exit(1). When os.killpg raises,
\* the exception leaves the handler at the main thread's current position
\* and sys.exit(1) is not reached.
Sigterm ==
    /\ pc # "exited"
    /\ IF handlerSlot = 0
       THEN /\ pc' = "exited"
            /\ hostExit' = "signal"
            /\ NoReturn /\ NoCall
            /\ UNCHANGED <<cur, handles, procs, inv>>
       ELSE /\ lastKill' = KillRecord(handlerSlot, "sigterm")
            /\ procs' = KillProcs(handlerSlot)
            /\ IF KillEffect(handlerSlot) = "error"
               THEN /\ handles' = [g \in H |->
                          IF g = handlerSlot \/ (g = cur /\ pc \in {"uk_mid", "rc_kill_mid"})
                          THEN [handles[g] EXCEPT !.kdone = TRUE] ELSE handles[g]]
                    /\ result' = IF pc \in RunPcs THEN Raised("handler") ELSE NoResult
                    /\ cur' = 0
                    /\ inv' = NoInv
                    /\ Propagates
               ELSE /\ handles' = ReplaceKill(handles, handlerSlot)
                    /\ pc' = "exited"
                    /\ hostExit' = "exit1"
                    /\ NoReturn
                    /\ UNCHANGED <<cur, inv>>
    /\ UNCHANGED <<cmd, onWindows, handlerSlot, lastStarted>>

\* ------------------------------------------------------------ the commands
\* The model follows the commands while the host lives.
\* The spawned process exits on its own.
ProcExit(g) ==
    /\ pc # "exited"
    /\ procs[g].state = "running"
    /\ procs' = [procs EXCEPT ![g].state = "exited",
                              ![g].status = NaturalStatus(g),
                              ![g].cause = "natural"]
    /\ NoReturn /\ NoCall
    /\ UNCHANGED <<cmd, onWindows, pc, cur, handles, handlerSlot, lastStarted, inv,
                   hostExit>>

\* Its descendant exits on its own.
DescExit(g) ==
    /\ pc # "exited"
    /\ procs[g].desc # "none"
    /\ procs' = [procs EXCEPT ![g].desc = "none"]
    /\ NoReturn /\ NoCall
    /\ UNCHANGED <<cmd, onWindows, pc, cur, handles, handlerSlot, lastStarted, inv,
                   hostExit>>

\* Somebody who holds the output pipe run_cmd() reads writes one more byte.
Write ==
    /\ pc \in RunPcs
    /\ ~Eof(cur)
    /\ inv.written < MaxOut
    /\ inv' = [inv EXCEPT !.written = inv.written + 1]
    /\ NoReturn /\ NoCall
    /\ UNCHANGED <<cmd, onWindows, pc, cur, handles, procs, handlerSlot, lastStarted,
                   hostExit>>

Next ==
    \/ Start
    \/ InstallHandler
    \/ RunCmd
    \/ RunCmdSpawnFails
    \/ CommunicateReturns
    \/ TimeoutExpired
    \/ RunKill
    \/ RunKillReplace
    \/ DrainReturns
    \/ Return
    \/ \E h \in H : UserKill(h)
    \/ UserKillReplace
    \/ \E h \in H : UserWait(h)
    \/ Sigterm
    \/ \E g \in H : ProcExit(g)
    \/ \E g \in H : DescExit(g)
    \/ Write

Spec == Init /\ [][Next]_vars

\* The host's main thread does not stop by itself: the statement it stands
\* at is executed once it can be, a communicate() returns once the pipe is
\* at EOF and the process has exited, and a finite timeout elapses. Nothing
\* is assumed of the commands (a process may run and hold the pipe for
\* ever), of the harness or of the arrival of SIGTERM.
HostFairness ==
    /\ WF_vars(InstallHandler)
    /\ WF_vars(CommunicateReturns)
    /\ WF_vars(TimeoutExpired)
    /\ WF_vars(RunKill)
    /\ WF_vars(RunKillReplace)
    /\ WF_vars(DrainReturns)
    /\ WF_vars(Return)

SpecLive == Spec /\ HostFairness

\* ------------------------------------------------------- any output
\* decode() on every output a command can leave: run_cmd() stands right
\* before line 71 (the process exited on its own) or line 77 (it was killed
\* on timeout) with any sequence of at most MaxLen bytes read from the pipe.
Bytes == {"CR", "LF", "a", "ESC", "xFF"}
Outputs == UNION {[1..n -> Bytes] : n \in 0..MaxLen}

\* The handle and its process after communicate() returned at line 70.
CompletedHandle == [NewHandle(1) EXCEPT !.returncode = <<NaturalStatus(1)>>]
CompletedProc ==
    [NewProc("none") EXCEPT !.state = IF onWindows THEN "exited" ELSE "reaped",
                            !.cause = "natural"]

\* The same after lines 74-76.
KilledHandle ==
    [NewHandle(1) EXCEPT !.returncode = <<IF onWindows THEN 1 ELSE -SIGTERM>>,
                         !.killReplaced = TRUE, !.kdone = TRUE]
KilledProc == [CompletedProc EXCEPT !.cause = "signal"]

InitDecode ==
    /\ onWindows \in BOOLEAN
    /\ pc \in {"rc_ret", "rc_ret_to"}
    /\ cur = 1
    /\ handles = <<IF pc = "rc_ret" THEN CompletedHandle ELSE KilledHandle>>
    /\ procs = <<IF pc = "rc_ret" THEN CompletedProc ELSE KilledProc>>
    /\ handlerSlot = 1
    /\ lastStarted = 1
    /\ \E bs \in Outputs :
         inv = [NoInv EXCEPT !.buf = bs, !.written = Len(bs),
                             !.timeout = (pc = "rc_ret_to"),
                             !.fired = (pc = "rc_ret_to"),
                             !.kills = IF pc = "rc_ret_to" THEN 1 ELSE 0]
    /\ hostExit = "none"
    /\ result = NoResult
    /\ lastKill = NoKill
    /\ cmd = NoCmd

NextDecode ==
    \/ Return

SpecDecode == InitDecode /\ [][NextDecode]_vars

\* ------------------------------------------------------ the argument list
\* What start() does to the argument list it is given does not depend on the
\* processes and has no effect on them, so it is followed on its own: a call
\* of start(cmd) or run_cmd(cmd) is one step here.
Words == {"s.py", "tool", "-o"}
Executable == "python"
EndsWithPy(w) == w = "s.py"

ArgLists == UNION {[1..n -> Words] : n \in 0..MaxArgs}

NewCmd(l) == [NoCmd EXCEPT !.given = l, !.list = l]

\* Lines 161-162: kwargs['args'].insert(0, sys.executable). kwargs['args'] is
\* the list object the caller passed (line 94 stores the reference, it makes
\* no copy), and insert() changes that object.
WindowsArgs(list) ==
    IF list # <<>> /\ EndsWithPy(list[1]) THEN <<Executable>> \o list ELSE list

\* Lines 99-102: the list object after _WindowsProcess(**kwargs) or
\* _LinuxProcess(**kwargs), which is also what Popen gets as args.
SpawnArgs(list) == IF onWindows THEN WindowsArgs(list) ELSE list

PassArgs(via) ==
    /\ pc = "idle"
    /\ cmd.calls < MaxCalls
    /\ cmd' = [cmd EXCEPT !.list = SpawnArgs(cmd.list),
                          !.argv = SpawnArgs(cmd.list),
                          !.calls = cmd.calls + 1,
                          !.via = via]
    /\ UNCHANGED <<onWindows, pc, cur, handles, procs, handlerSlot, lastStarted,
                   inv, hostExit, result, lastKill>>

\* start(cmd) called by the harness (lines 93-102).
StartArgs == PassArgs("start")

\* run_cmd(cmd): line 69 passes cmd on to start().
RunCmdArgs == PassArgs("run_cmd")

InitArgs ==
    /\ onWindows \in BOOLEAN
    /\ pc = "idle"
    /\ cur = 0
    /\ handles = <<>>
    /\ procs = <<>>
    /\ handlerSlot = 0
    /\ lastStarted = 0
    /\ inv = NoInv
    /\ hostExit = "none"
    /\ result = NoResult
    /\ lastKill = NoKill
    /\ cmd \in {NewCmd(l) : l \in ArgLists}

NextArgs ==
    \/ StartArgs
    \/ RunCmdArgs

SpecArgs == InitArgs /\ [][NextArgs]_vars

\* ================================================================= claims
\* Where a run_cmd() invocation stands, by its process.
RunState(p) ==
    IF p.state = "running" THEN "Running"
    ELSE IF p.cause = "natural" THEN "Completed" ELSE "Killed"

\* C1: a kill() on a handle whose process has exited on its own and has been
\* waited for (reaped) does nothing: it reaches no process or process group
\* and raises no error. (taskkill finding no process counts as nothing.)
C1_KillAfterReapIsNoop ==
    lastKill.stale => lastKill.effect \in {"noop", "miss"}

\* C2: of the kill() calls made one after the other on a handle, every call
\* after the first delivers nothing and raises nothing.
C2_LaterKillIsNoop ==
    lastKill.later => lastKill.effect = "noop"

\* C3: when run_cmd() returns with timedOut = true, neither the spawned
\* process nor any of its descendants is still running.
C3_TimeoutLeavesNoProcess ==
    (result.kind = "triple" /\ result.timedOut) => ~result.treeAlive

\* C4: a SIGTERM that reaches the host between start() returning and
\* run_cmd() returning makes the handler kill the handle's process subtree,
\* and the host then ends with a non-zero exit status.
C4_SigtermKillsAndExits ==
    (lastKill.by = "sigterm" /\ lastKill.inWindow) =>
        /\ pc = "exited"
        /\ hostExit \in {"exit1", "traceback"}
        /\ ~TreeAlive(lastKill.h)

\* C5: when the handler has ended the host, no process that a start() call
\* returned a handle for is still running without having been sent a kill
\* (a process that was sent one is not running here).
C5_NoOrphanAtExit ==
    hostExit = "exit1" =>
        \A g \in 1..lastStarted : procs[g].state # "running"

\* C6: the installed SIGTERM handler is bound to the handle the most recent
\* start() returned, whatever has happened to that handle's process since.
C6_LastStartWins == handlerSlot = lastStarted

\* C6 witness: a second start() (the one of a run_cmd() that has returned)
\* has taken the handler from a first handle whose process still runs, and
\* the handler is still bound to the finished one.
C6_Witness ==
    /\ result.kind = "triple"
    /\ result.h = 2
    /\ handlerSlot = 2
    /\ procs[2].state # "running"
    /\ handles[1].held
    /\ procs[1].state = "running"

\* The triple run_cmd() returns is well-formed: an output, a return code
\* that is set, a boolean.
WellFormed(r) ==
    /\ r.kind = "triple"
    /\ r.output \in Seq({"CR", "LF", "a", "ESC", "xFF", "REPL"})
    /\ Len(r.rc) = 1
    /\ r.rc[1] \in Int
    /\ r.timedOut \in BOOLEAN

\* C7 as claimed: every run_cmd() ends with a well-formed triple, also when
\* the command could not be spawned.
C7_AlwaysTriple == result.kind # "none" => WellFormed(result)

\* C7 as amended: whenever run_cmd() returns, it returns a well-formed
\* triple, on the normal and on the timeout path, and no failure of the kill
\* keeps it from returning; it raises only when the command could not be
\* spawned (the spawn error goes to the caller) or when an exception leaves
\* the SIGTERM handler.
C7_TripleWhenSpawned ==
    /\ result.kind = "triple" => WellFormed(result)
    /\ result.kind = "raised" => result.why \in {"spawn", "handler"}
    /\ (pc = "idle" /\ result.kind = "none") => inv = NoInv

\* C7 witness: a command killed on timeout, and the triple returned for it.
C7_Witness ==
    /\ result.kind = "triple"
    /\ result.timedOut
    /\ result.kills = 1

\* C8 as claimed: when the process exits on its own before any timeout
\* elapses, timedOut is false, the return code is its exit status and
\* run_cmd() has not called kill().
C8_NaturalExitNotTimedOut ==
    (/\ result.kind = "triple"
     /\ procs[result.h].cause = "natural"
     /\ (result.fired => result.natFirst)) =>
        /\ ~result.timedOut
        /\ result.rc = <<NaturalStatus(result.h)>>
        /\ result.kills = 0

\* C8 as amended: when the process exits on its own and every descendant
\* has closed the output pipe before any timeout elapses, timedOut is false,
\* the return code is the exit status and run_cmd() has not called kill().
C8_FinishedBeforeTimeout ==
    (/\ result.kind = "triple"
     /\ procs[result.h].cause = "natural"
     /\ ~result.fired) =>
        /\ ~result.timedOut
        /\ result.rc = <<NaturalStatus(result.h)>>
        /\ result.kills = 0

\* C8 witness: a command run with a timeout that exits with status 1 before
\* the timeout elapses.
C8_Witness ==
    /\ result.kind = "triple"
    /\ result.timeout
    /\ ~result.fired
    /\ result.rc = <<1>>

\* C9, the result: it is produced only once the process is in a terminal
\* state and has been waited for.
C9_ResultAfterTerminal ==
    result.kind = "triple" =>
        /\ RunState(procs[result.h]) \in {"Completed", "Killed"}
        /\ handles[result.h].returncode # <<>>

\* C9, the steps of an invocation: it starts Running; a terminal state is
\* never left; Killed is entered only by a kill() of the timeout path or of
\* the SIGTERM handler, Completed only by the process's own exit.
C9_Step ==
    /\ (pc = "idle" /\ pc' = "rc_spawned") =>
           RunState(procs'[cur']) = "Running"
    /\ pc \in RunPcs =>
           /\ RunState(procs[cur]) # "Running" =>
                  RunState(procs'[cur]) = RunState(procs[cur])
           /\ (RunState(procs[cur]) = "Running" /\ RunState(procs'[cur]) = "Killed") =>
                  lastKill'.by \in {"timeout", "sigterm"}
           /\ (RunState(procs[cur]) = "Running" /\ RunState(procs'[cur]) = "Completed") =>
                  /\ lastKill' = NoKill
                  /\ procs'[cur].status = NaturalStatus(cur)

\* C9: every run_cmd() invocation goes NotStarted -> Running -> Completed or
\* Killed, and its result comes only after a terminal state.
C9_Lifecycle == []C9_ResultAfterTerminal /\ [][C9_Step]_vars

\* C9 witness: the result of an invocation whose process was killed.
C9_Witness ==
    /\ result.kind = "triple"
    /\ result.timedOut
    /\ RunState(procs[result.h]) = "Killed"

\* C10: what run_cmd() hands to decode() is every byte written to the
\* pipe, in order: on the timeout path, what was read before the timeout
\* followed by what the drain reads.
C10_NoOutputDropped ==
    result.kind = "triple" => result.raw = Written(result.written)

\* C10 witness: a timed-out command that wrote before the timeout and after it.
C10_Witness ==
    /\ result.kind = "triple"
    /\ result.timedOut
    /\ 0 < result.early
    /\ result.early < result.written

\* C11: after start(cmd) or run_cmd(cmd), on either platform, the caller's
\* argument list holds the same elements in the same order as before.
C11_CmdNotModified == cmd.calls > 0 => cmd.list = cmd.given

\* What is left of position i of a decoded text d once line endings are
\* normalized: a '\r' becomes one '\n', a '\n' right after a '\r' goes with
\* it, everything else stays.
NormalPiece(d, i) ==
    IF d[i] = "CR" THEN <<"LF">>
    ELSE IF d[i] = "LF" /\ i > 1 /\ d[i - 1] = "CR" THEN <<>>
    ELSE <<d[i]>>

RECURSIVE NormalUpTo(_, _)
NormalUpTo(d, n) == IF n = 0 THEN <<>> ELSE NormalUpTo(d, n - 1) \o NormalPiece(d, n)

\* C12: with an output encoding and strip_shell_colors = False, the text
\* run_cmd() returns is the decoded output in which every '\r\n' and every
\* bare '\r' has become exactly one '\n': no '\r' is left and nothing else
\* is changed (colour sequences stay).
C12_NewlinesNormalized ==
    (result.kind = "triple" /\ result.encoded /\ ~result.strip) =>
        /\ \A i \in 1..Len(result.output) : result.output[i] # "CR"
        /\ result.output =
               NormalUpTo(DecodeBytes(result.raw), Len(result.raw))

\* C12 witness: an output with a '\r\n', a colour sequence and a bare '\r'.
C12_Witness ==
    /\ result.kind = "triple"
    /\ result.encoded
    /\ ~result.strip
    /\ result.raw = <<"CR", "LF", "ESC">>
    /\ result.output = <<"LF", "ESC">>

\* C13: with output_encoding = None run_cmd() returns the bytes read from
\* the pipe as they are, at line 71 and at line 77, whatever
\* strip_shell_colors is.
C13_RawWhenNotEncoded ==
    (result.kind = "triple" /\ ~result.encoded) => result.output = result.raw

\* C13 witness: on the timeout path, with strip_shell_colors = True, bytes
\* that any conversion would change.
C13_Witness ==
    /\ result.kind = "triple"
    /\ result.timedOut
    /\ ~result.encoded
    /\ result.strip
    /\ result.raw = <<"ESC", "CR", "xFF">>

\* C14: when SIGTERM reaches the host while run_cmd() is past start(), at
\* whatever point (also inside the kill() of the timeout path, after the
\* termination action and before kill is replaced), the handler's kill()
\* raises no error and does not deliver the termination action to a process
\* group that the interrupted kill() has already delivered it to.
C14_RaceFree ==
    (lastKill.by = "sigterm" /\ lastKill.inWindow) =>
        /\ lastKill.effect # "error"
        /\ lastKill.again => lastKill.effect \notin {"own", "other"}

\* C15: a run_cmd() with a finite timeout that is past start() eventually
\* returns (or raises), whatever the command and its descendants do: once
\* the timeout has elapsed and kill() was called, the drain comes to an end.
C15_RunCmdReturns ==
    (pc \in RunWindow /\ inv.timeout) ~> (pc \notin RunWindow)

\* C16, the steps of the timeout path, each only after the one before:
\* the timeout elapses during the first communicate(); run_cmd() calls
\* kill() once, after that; the drain starts after the kill and, when it
\* ends, p.returncode is the status the OS holds for the process; the
\* result with timedOut = true comes after the drain and carries that
\* return code.
C16_Step ==
    /\ (pc # "rc_timeout" /\ pc' = "rc_timeout") =>
           pc = "rc_comm" /\ inv.timeout /\ inv'.fired /\ inv'.kills = 0
    /\ lastKill'.by = "timeout" =>
           pc = "rc_timeout" /\ inv.fired /\ inv.kills = 0
    /\ (pc # "rc_drain" /\ pc' = "rc_drain") =>
           /\ pc \in {"rc_timeout", "rc_kill_mid"}
           /\ inv'.kills = 1
           /\ handles'[cur].returncode = <<>>
    /\ (pc # "rc_ret_to" /\ pc' = "rc_ret_to") =>
           /\ pc = "rc_drain"
           /\ handles'[cur].returncode = <<procs[cur].status>>
    /\ (result'.kind = "triple" /\ result'.timedOut) =>
           /\ pc = "rc_ret_to"
           /\ result'.rc = handles[cur].returncode
           /\ result'.fired
           /\ result'.kills = 1

\* C16, the return code of a timed-out command: the status of a process
\* ended by the kill, or the exit status of a process that had ended by
\* itself before the kill reached it.
C16_Result ==
    (result.kind = "triple" /\ result.timedOut) =>
        result.rc = <<IF procs[result.h].cause = "natural"
                      THEN NaturalStatus(result.h)
                      ELSE IF onWindows THEN 1 ELSE -SIGTERM>>

\* C16: on the timeout path the order is timeout, one kill() by run_cmd(),
\* drain, result, and the return code is the one the OS reported.
C16_TimeoutPathOrder == []C16_Result /\ [][C16_Step]_vars

\* C16 witness: the result of a command that was killed by the SIGTERM of
\* the timeout path.
C16_Witness ==
    /\ result.kind = "triple"
    /\ result.timedOut
    /\ result.rc = <<-SIGTERM>>
    /\ result.kills = 1

\* The kill() call just made is the first one on its handle, and the kill()
\* of another handle has been called and replaced by the no-op before.
FirstKillAfterOther ==
    /\ lastKill.by # "none"
    /\ ~lastKill.later
    /\ ~lastKill.again
    /\ \E g \in H \ {lastKill.h} : handles[g].kdone /\ handles[g].killReplaced

\* C17 as claimed: after a kill() on one handle, the first kill() on any
\* other handle still delivers the termination action to that handle's own
\* process group.
C17_OtherKillDelivers == FirstKillAfterOther => lastKill.effect = "own"

\* C17 as amended, the first kill() of another handle: it delivers the
\* termination action to that handle's own process group when the handle's
\* process is still running.
C17_RunningKillDelivers ==
    (FirstKillAfterOther /\ lastKill.running) => lastKill.effect = "own"

\* C17, the frame: a step turns the kill() of a handle into the no-op only
\* when it is a kill() call on that very handle (or its last statement), or
\* when the handle is freed.
C17_Frame ==
    \A g \in H :
        (handles'[g].killReplaced /\ ~handles[g].killReplaced) =>
            \/ lastKill'.h = g
            \/ g = cur /\ pc \in {"rc_kill_mid", "uk_mid"}
            \/ handles'[g] = GoneHandle

\* C17 as amended: calling kill() on one handle turns only that handle's
\* kill() into a no-op, and the first kill() on any other handle whose
\* process still runs delivers to that handle's own process group.
C17_Independent == []C17_RunningKillDelivers /\ [][C17_Frame]_vars

\* C17 witness: the first kill() on the second handle reaches its own
\* group after the kill() of the first handle has become the no-op.
C17_Witness ==
    /\ lastKill.h = 2
    /\ ~lastKill.later
    /\ lastKill.running
    /\ lastKill.effect = "own"
    /\ handles[1].held
    /\ handles[1].kdone
    /\ handles[1].killReplaced
====
